---- MODULE Spec2Model ----
(***************************************************************************)
(* Verification model of the syncro_data_consolidator core:                *)
(*   - sdc/utils/session_aggregator.py  (temporal clustering of segments)  *)
(*   - sdc/utils/session_builder.py     (Session construction)             *)
(*   - sdc/processors/session_customer_linker.py (customer/contact linker) *)
(* Five specifications share the module: SpecCluster applies the           *)
(* clusterer to bounded inputs; SpecBuild builds Sessions from segment     *)
(* lists and from clustered groups; SpecLink runs the linker on one        *)
(* Session against every small roster; SpecRun runs it over a store of     *)
(* Sessions; SpecRetry adds a second run over the store the first left.    *)
(***************************************************************************)
EXTENDS Integers, Sequences, FiniteSets, TLC

\* ------------------------------------------------------------------------
\* Bounds of the clustering model
\* ------------------------------------------------------------------------
MaxSegs == 3
MaxTime == 2
MaxGap == 1
MaxKeySegs == 2

\* Python's None
None == "<None>"

VARIABLES
    \* --- clustering (session_aggregator.py) ---
    segments,          \* the list object the caller passes to the clusterer
    segments_in,       \* the same list as it was when the caller built it
    time_gap,          \* max gap (timedelta, in abstract time units)
    grouping_keys,     \* list of keys; <<>> stands for None / []
    groups,            \* return value of the call on `segments`
    reordered,         \* another ordering of the same segments
    groups_reordered,  \* return value of the call on `reordered`
    cpc                \* "ready" | "called" | "recalled"

cvars == <<segments, segments_in, time_gap, grouping_keys, groups,
           reordered, groups_reordered, cpc>>

VARIABLES
    \* --- linker (session_customer_linker.py) ---
    roster_file,          \* lean_customer_cache.json: [ok, data]
    fuzzy_threshold,      \* config customer_linking_fuzzy_match_threshold
    llm_config,           \* config['llm_config'] as get_llm_client sees it
    store,                \* the session files in scan order: [valid, session]
    lpc,                  \* "start" | "loop" | "done" | "aborted" | "crashed"
    customer_cache,       \* the roster as loaded for this run
    next_entry,           \* position of the scan in the folder
    counts,               \* the seven counters of the summary line
    customer_link_cache,  \* guessed name -> winner (0 = None)
    contact_link_cache,   \* <<customer name, guessed contact>> -> winner
    saves,                \* per file: saves of its session during the run
    llm_calls,            \* llm.invoke calls made during the run
    clock,                \* datetime.now
    last_step,            \* what the latest loop iteration decided
    evaluations,          \* per cache key: cascade runs and llm.invoke calls so far
    run                   \* 1 for the first run over the store, 2 for a retry

lvars == <<roster_file, fuzzy_threshold, llm_config, store, lpc, customer_cache,
           next_entry, counts, customer_link_cache, contact_link_cache, saves,
           llm_calls, clock, last_step, evaluations, run>>

VARIABLES
    \* --- session builder (session_builder.py) ---
    build_segments,    \* the segment list handed to the builder
    build_gap,         \* max gap of the clustering that precedes a build
    built,             \* outcome of each build_session call: [ok, session]
    bpc                \* "ready" | "built" | "clustered_and_built"

bvars == <<build_segments, build_gap, built, bpc>>

vars == <<cvars, lvars, bvars>>

\* ------------------------------------------------------------------------
\* Bounds of the linker model
\* ------------------------------------------------------------------------
MaxRoster == 2

\* the linker is not running (clustering specification)
EmptyMap == [k \in {} |-> 0]

ZeroCounts ==
    [processed_files |-> 0, linked_files |-> 0, error_files |-> 0, skipped_files |-> 0,
     linked_by_exact |-> 0, linked_by_fuzzy |-> 0, linked_by_llm |-> 0]

NoStep == [kind |-> "none"]

LinkIdle ==
    /\ roster_file = [ok |-> FALSE, data |-> <<>>]
    /\ fuzzy_threshold = 0
    /\ llm_config = "no_llm_config"
    /\ store = <<>>
    /\ lpc = "idle"
    /\ customer_cache = <<>>
    /\ next_entry = 0
    /\ counts = ZeroCounts
    /\ customer_link_cache = EmptyMap
    /\ contact_link_cache = EmptyMap
    /\ saves = <<>>
    /\ llm_calls = 0
    /\ clock = 0
    /\ last_step = NoStep
    /\ evaluations = EmptyMap
    /\ run = 1

\* no build is in progress (clustering and linker specifications)
BuildIdle ==
    /\ build_segments = <<>>
    /\ build_gap = 0
    /\ built = <<>>
    /\ bpc = "idle"

\* no clustering call is in progress (linker specification)
ClusterIdle ==
    /\ segments = <<>>
    /\ segments_in = <<>>
    /\ time_gap = 0
    /\ grouping_keys = <<>>
    /\ groups = <<>>
    /\ reordered = <<>>
    /\ groups_reordered = <<>>
    /\ cpc = "idle"

\* ------------------------------------------------------------------------
\* Generic helpers
\* ------------------------------------------------------------------------
SeqsUpTo(S, n) == UNION {[1..k -> S] : k \in 0..n}

Permutations_(n) == {p \in [1..n -> 1..n] : \A i, j \in 1..n : i # j => p[i] # p[j]}

RECURSIVE Flatten(_)
Flatten(ss) == IF ss = <<>> THEN <<>> ELSE Head(ss) \o Flatten(Tail(ss))

Max2(a, b) == IF a >= b THEN a ELSE b

\* ------------------------------------------------------------------------
\* SessionSegment (models/session_v2.py)
\* ------------------------------------------------------------------------
\* A segment is a record of its first-class fields; `metadata` is the
\* generic bag, a function from a finite set of keys to values.
EmptyMeta == [k \in {} |-> None]

SessionSegment(id, st, en, au, md) ==
    [segment_id |-> id, start_time_utc |-> st, end_time_utc |-> en,
     author |-> au, metadata |-> md]

\* hasattr(segment, key)
hasattr(segment, key) == key \in DOMAIN segment

\* a plausible slip: the generic bag consulted first
_get_key_value_metadata_first(segment, key) ==
    IF key \in DOMAIN segment.metadata THEN segment.metadata[key]
    ELSE IF hasattr(segment, key) THEN segment[key]
    ELSE None

\* session_aggregator._get_key_value
_get_key_value(segment, key) ==
    IF hasattr(segment, key) THEN segment[key]
    ELSE IF key \in DOMAIN segment.metadata THEN segment.metadata[key]
    ELSE None

\* ------------------------------------------------------------------------
\* segments.sort(key=lambda s: s.start_time_utc)  -- stable
\* ------------------------------------------------------------------------
RECURSIVE InsertStable(_, _)
InsertStable(x, s) ==
    IF s = <<>> THEN <<x>>
    ELSE IF Head(s).start_time_utc <= x.start_time_utc
         THEN <<Head(s)>> \o InsertStable(x, Tail(s))
         ELSE <<x>> \o s

RECURSIVE SortFrom(_, _)
SortFrom(s, acc) ==
    IF s = <<>> THEN acc ELSE SortFrom(Tail(s), InsertStable(Head(s), acc))

\* a plausible slip: relying on the caller to pre-sort
sort_unsorted(s) == s

sort_by_start_time(s) == SortFrom(s, <<>>)

\* ------------------------------------------------------------------------
\* group_segments_by_time_gap_and_keys: the loop body's two conditions
\* ------------------------------------------------------------------------
\* a plausible slip: the gap condition dropped
time_gap_never(prev_segment, curr_segment, gap) == FALSE

time_gap_exceeded(prev_segment, curr_segment, gap) ==
    (curr_segment.start_time_utc - prev_segment.end_time_utc) > gap

keys_changed(prev_segment, curr_segment, keys) ==
    /\ keys # <<>>
    /\ \E n \in 1..Len(keys) :
          _get_key_value(curr_segment, keys[n]) # _get_key_value(prev_segment, keys[n])

\* for i in range(1, len(segments)): ...   (segs already sorted)
RECURSIVE GroupLoop(_, _, _, _, _, _)
GroupLoop(segs, i, sessions, current_session_segments, gap, keys) ==
    IF i > Len(segs)
    THEN IF current_session_segments # <<>>
         THEN Append(sessions, current_session_segments)
         ELSE sessions
    ELSE IF \/ time_gap_exceeded(segs[i - 1], segs[i], gap)
            \/ keys_changed(segs[i - 1], segs[i], keys)
         THEN GroupLoop(segs, i + 1, Append(sessions, current_session_segments),
                        <<segs[i]>>, gap, keys)
         ELSE GroupLoop(segs, i + 1, sessions,
                        Append(current_session_segments, segs[i]), gap, keys)

\* The list as the call leaves it: sorted in place unless empty (early return)
SortedInPlace(segs) == IF segs = <<>> THEN segs ELSE sort_by_start_time(segs)

\* a plausible slip: the group still open at loop end is not returned
drop_open_group(segs, gap, keys) ==
    IF segs = <<>> THEN <<>>
    ELSE LET s == sort_by_start_time(segs)
             r == GroupLoop(s, 2, <<>>, <<s[1]>>, gap, keys)
         IN SubSeq(r, 1, Len(r) - 1)

\* Return value of group_segments_by_time_gap_and_keys(segs, gap, keys)
group_segments_by_time_gap_and_keys(segs, gap, keys) ==
    IF segs = <<>> THEN <<>>
    ELSE LET s == sort_by_start_time(segs)
         IN GroupLoop(s, 2, <<>>, <<s[1]>>, gap, keys)

\* ------------------------------------------------------------------------
\* Inputs of the clustering specification
\* ------------------------------------------------------------------------
Authors == {"a", "b"}

\* time-rich segments: every interval within 0..MaxTime, authors a/b, no bag
TimeShapes ==
    {[start_time_utc |-> st, end_time_utc |-> en, author |-> au, metadata |-> EmptyMeta] :
        st \in 0..MaxTime, en \in 0..MaxTime, au \in Authors}

\* key-rich segments: instantaneous events at time 0 whose first-class
\* author and generic bag vary (bag may shadow `author`, may hold
\* `customer_name`, may be empty)
MetaBags ==
    {EmptyMeta} \cup {[k \in {"author"} |-> v] : v \in Authors}
                \cup {[k \in {"customer_name"} |-> v] : v \in {"x", "y"}}

KeyShapes ==
    {[start_time_utc |-> 0, end_time_utc |-> 0, author |-> au, metadata |-> md] :
        au \in Authors, md \in MetaBags}

\* segment_id is the position at which the producer emitted the segment
WithIds(shapes) ==
    [i \in 1..Len(shapes) |->
        SessionSegment(i, shapes[i].start_time_utc, shapes[i].end_time_utc,
                       shapes[i].author, shapes[i].metadata)]

TimeInputs ==
    {WithIds(s) : s \in {q \in SeqsUpTo(TimeShapes, MaxSegs) :
                           \A i \in 1..Len(q) : q[i].end_time_utc >= q[i].start_time_utc}}

KeyInputs == {WithIds(s) : s \in SeqsUpTo(KeyShapes, MaxKeySegs)}

KeyLists == {<<>>, <<"author">>, <<"customer_name">>, <<"site">>,
             <<"author", "customer_name">>}

InitCluster ==
    /\ \/ /\ segments \in TimeInputs
          /\ grouping_keys \in {<<>>, <<"author">>}
          /\ time_gap \in 0..MaxGap
       \/ /\ segments \in KeyInputs
          /\ grouping_keys \in KeyLists
          /\ time_gap = 0
    /\ segments_in = segments
    /\ groups = <<>>
    /\ reordered = <<>>
    /\ groups_reordered = <<>>
    /\ cpc = "ready"
    /\ LinkIdle
    /\ BuildIdle

\* The ingestor calls the clusterer on its list
ClusterCall ==
    /\ cpc = "ready"
    /\ groups' = group_segments_by_time_gap_and_keys(segments, time_gap, grouping_keys)
    /\ segments' = SortedInPlace(segments)
    /\ cpc' = "called"
    /\ UNCHANGED <<segments_in, time_gap, grouping_keys, reordered, groups_reordered>>
    /\ UNCHANGED <<lvars, bvars>>

\* The same segments, handed over in another order, are clustered again
ClusterCallReordered ==
    /\ cpc = "called"
    /\ \E p \in Permutations_(Len(segments_in)) :
         LET other == [i \in 1..Len(segments_in) |-> segments_in[p[i]]]
         IN /\ groups_reordered' =
                   group_segments_by_time_gap_and_keys(other, time_gap, grouping_keys)
            /\ reordered' = other
    /\ cpc' = "recalled"
    /\ UNCHANGED <<segments, segments_in, time_gap, grouping_keys, groups>>
    /\ UNCHANGED <<lvars, bvars>>

NextCluster == ClusterCall \/ ClusterCallReordered

SpecCluster == InitCluster /\ [][NextCluster]_vars

\* ========================================================================
\* Session builder (utils/session_builder.py); times are in seconds
\* ========================================================================
MaxBuildSegs == 2

\* a plausible slip: the first segment in arrival order gives the start
first_start_time(segs) == segs[1].start_time_utc

\* min(s.start_time_utc for s in segments)
RECURSIVE min_start_time(_)
min_start_time(segs) ==
    IF Len(segs) = 1 THEN segs[1].start_time_utc
    ELSE LET m == min_start_time(Tail(segs))
         IN IF segs[1].start_time_utc <= m THEN segs[1].start_time_utc ELSE m

\* max(s.end_time_utc for s in segments)
RECURSIVE max_end_time(_)
max_end_time(segs) ==
    IF Len(segs) = 1 THEN segs[1].end_time_utc
    ELSE Max2(segs[1].end_time_utc, max_end_time(Tail(segs)))

\* a plausible slip: minutes rounded to the nearest, not cut off
create_session_insights_rounding(session_start_time_utc, session_end_time_utc) ==
    [session_start_time_utc |-> session_start_time_utc,
     session_end_time_utc |-> session_end_time_utc,
     session_duration_minutes |->
         IF session_end_time_utc > session_start_time_utc
         THEN (session_end_time_utc - session_start_time_utc + 30) \div 60
         ELSE 0]

\* create_session_insights: int(total_seconds() / 60) when end > start, else 0
create_session_insights(session_start_time_utc, session_end_time_utc) ==
    [session_start_time_utc |-> session_start_time_utc,
     session_end_time_utc |-> session_end_time_utc,
     session_duration_minutes |->
         IF session_end_time_utc > session_start_time_utc
         THEN (session_end_time_utc - session_start_time_utc) \div 60
         ELSE 0]

\* create_session_meta / create_session_context with the defaults the
\* ingestors rely on (session_id is a fresh uuid4, left out)
create_session_meta(source_system) ==
    [source_system |-> source_system, processing_status |-> "Needs Linking"]

create_session_context(customer_name) ==
    [customer_name |-> customer_name, customer_id |-> None]

\* a plausible slip: an empty list yields an empty Session
build_session_of_anything(segs, source_system, customer_name) ==
    [ok |-> TRUE, error |-> None,
     session |-> [meta |-> create_session_meta(source_system),
                  context |-> create_session_context(customer_name),
                  insights |-> create_session_insights(0, 0),
                  segments |-> segs]]

\* build_session: the Session, or the ValueError it raises
build_session(segs, source_system, customer_name) ==
    IF segs = <<>>
    THEN [ok |-> FALSE, error |-> "ValueError", session |-> None]
    ELSE [ok |-> TRUE, error |-> None,
          session |-> [meta |-> create_session_meta(source_system),
                       context |-> create_session_context(customer_name),
                       insights |-> create_session_insights(min_start_time(segs),
                                                            max_end_time(segs)),
                       segments |-> segs]]

\* session_aggregator.transform_grouped_segments_to_session(**kwargs)
transform_grouped_segments_to_session(segs, source_system, customer_name) ==
    build_session(segs, source_system, customer_name)

\* seconds around the minute marks
BuildTimes == {0, 59, 60, 121}

\* segments in any order; nothing validates end >= start
BuildInputs ==
    {[i \in 1..Len(q) |-> SessionSegment(i, q[i][1], q[i][2], "a", EmptyMeta)] :
        q \in SeqsUpTo(BuildTimes \X BuildTimes, MaxBuildSegs)}

InitBuild ==
    /\ build_segments \in BuildInputs
    /\ build_gap \in {0, 60}
    /\ built = <<>>
    /\ bpc = "ready"
    /\ LinkIdle
    /\ ClusterIdle

\* a caller hands its segment list to build_session as it is
BuildCall ==
    /\ bpc = "ready"
    /\ built' = <<build_session(build_segments, "ScreenConnect", None)>>
    /\ bpc' = "built"
    /\ UNCHANGED <<build_segments, build_gap>>
    /\ UNCHANGED <<cvars, lvars>>

\* screenconnect_log_ingestor.py:202-221: cluster, then one build per group
ClusterAndBuild ==
    /\ bpc = "ready"
    /\ LET grouped_sessions ==
             group_segments_by_time_gap_and_keys(build_segments, build_gap,
                                                 <<"customer_name", "author">>)
       IN built' = [g \in 1..Len(grouped_sessions) |->
                      transform_grouped_segments_to_session(
                          grouped_sessions[g], "ScreenConnect",
                          LET first_segment == grouped_sessions[g][1]
                          IN IF "customer_name" \in DOMAIN first_segment.metadata
                             THEN first_segment.metadata["customer_name"]
                             ELSE None)]
    /\ build_segments' = SortedInPlace(build_segments)
    /\ bpc' = "clustered_and_built"
    /\ UNCHANGED build_gap
    /\ UNCHANGED <<cvars, lvars>>

NextBuild == BuildCall \/ ClusterAndBuild

SpecBuild == InitBuild /\ [][NextBuild]_vars

\* ========================================================================
\* Customer / contact linker (processors/session_customer_linker.py)
\* ========================================================================

\* ------------------------------------------------------------------------
\* Strings are sequences of characters; str.lower() and str.strip()
\* ------------------------------------------------------------------------
lower_char(c) ==
    CASE c = "A" -> "a"
      [] c = "B" -> "b"
      [] c = "C" -> "c"
      [] c = "X" -> "x"
      [] OTHER -> c

lower(str) == [i \in 1..Len(str) |-> lower_char(str[i])]

RECURSIVE lstrip(_)
lstrip(str) ==
    IF str # <<>> /\ Head(str) = " " THEN lstrip(Tail(str)) ELSE str

RECURSIVE rstrip(_)
rstrip(str) ==
    IF str # <<>> /\ str[Len(str)] = " " THEN rstrip(SubSeq(str, 1, Len(str) - 1)) ELSE str

strip(str) == rstrip(lstrip(str))

\* ------------------------------------------------------------------------
\* thefuzz process.extract(query, names, limit, scorer=token_set_ratio)
\* ------------------------------------------------------------------------
\* The default processor lower-cases query and choice before scoring, so a
\* score depends on the case-folded choice only; `sc` maps a case-folded
\* choice to its 0..100 score against the query.
score_of(sc, name) == sc[lower(name)]

\* insert <<name, score>> keeping descending score, ties in arrival order
RECURSIVE InsertByScore(_, _)
InsertByScore(m, sorted) ==
    IF sorted = <<>> THEN <<m>>
    ELSE IF Head(sorted)[2] >= m[2]
         THEN <<Head(sorted)>> \o InsertByScore(m, Tail(sorted))
         ELSE <<m>> \o sorted

RECURSIVE SortByScore(_, _)
SortByScore(ms, acc) ==
    IF ms = <<>> THEN acc ELSE SortByScore(Tail(ms), InsertByScore(Head(ms), acc))

process_extract(sc, names, limit) ==
    LET scored == [i \in 1..Len(names) |-> <<names[i], score_of(sc, names[i])>>]
        ranked == SortByScore(scored, <<>>)
    IN SubSeq(ranked, 1, IF Len(ranked) < limit THEN Len(ranked) ELSE limit)

\* ------------------------------------------------------------------------
\* choices = {c[key]: c for c in entries if c.get(key)}
\* ------------------------------------------------------------------------
\* keys in insertion order (first occurrence of each non-empty name)
RECURSIVE choice_keys(_, _)
choice_keys(names, acc) ==
    IF names = <<>> THEN acc
    ELSE IF Head(names) = <<>> \/ \E i \in 1..Len(acc) : acc[i] = Head(names)
         THEN choice_keys(Tail(names), acc)
         ELSE choice_keys(Tail(names), Append(acc, Head(names)))

\* choices[name]: a later entry of the same name overwrites an earlier one
choice_entry(names, name) ==
    CHOOSE i \in 1..Len(names) :
        names[i] = name /\ \A j \in 1..Len(names) : names[j] = name => j <= i

\* ------------------------------------------------------------------------
\* _find_winner_from_llm_response(llm_response, candidates, match_key)
\* ------------------------------------------------------------------------
\* candidates: indexes into `names`, in the order sent; 0 stands for None
\* a plausible slip: taking the top candidate whatever the LLM answered
find_winner_nearest(names, candidates, llm_response) ==
    IF candidates = <<>> THEN 0 ELSE candidates[1]

_find_winner_from_llm_response(names, candidates, llm_response) ==
    LET llm_winner_name == lower(strip(llm_response))
        hits == {k \in 1..Len(candidates) :
                    lower(strip(names[candidates[k]])) = llm_winner_name}
    IN IF hits = {} THEN 0
       ELSE candidates[CHOOSE k \in hits : \A h \in hits : k <= h]

\* ------------------------------------------------------------------------
\* llm_utils.get_llm_client('lightweight', config, logger)
\* ------------------------------------------------------------------------
LlmConfigs == {"google_gemini", "no_llm_config", "unsupported_provider"}

\* a plausible slip: a client is assumed whatever the configuration
get_llm_client_always(cfg) == TRUE

\* TRUE: a client object is returned; FALSE: None
get_llm_client(cfg) == cfg = "google_gemini"

\* what llm.invoke(prompt) can do: answer some text, answer content that
\* is not a str, or raise
NonStr == <<"<non-str>">>
Raises == <<"<raises>">>

\* ------------------------------------------------------------------------
\* The fuzzy and LLM passes (lines 129-158 for customers, 187-209 contacts)
\* ------------------------------------------------------------------------
ViabilityFloor == 60
Separation == 10
CustomerLimit == 5
ContactLimit == 3

\* a plausible slip: a strict floor
viable_at_floor_plus_one(top_matches) ==
    SelectSeq(top_matches, LAMBDA m : m[2] > ViabilityFloor)

\* a plausible slip: the accept threshold doubles as the floor
viable_at_accept_threshold(top_matches) ==
    SelectSeq(top_matches, LAMBDA m : m[2] >= fuzzy_threshold)

\* viable_matches = [m for m in top_matches if m[1] >= 60]
viable_of(top_matches) ==
    SelectSeq(top_matches, LAMBDA m : m[2] >= ViabilityFloor)

\* a plausible slip: a separation of exactly 10 accepted
accept_at_separation(viable, threshold) ==
    /\ viable # <<>>
    /\ viable[1][2] >= threshold
    /\ (Len(viable) = 1 \/ viable[1][2] - viable[2][2] >= Separation)

\* the two auto-accept branches (lines 139 and 143)
fuzzy_accepts(viable, threshold) ==
    /\ viable # <<>>
    /\ \/ Len(viable) = 1 /\ viable[1][2] >= threshold
       \/ /\ Len(viable) > 1
          /\ viable[1][2] >= threshold
          /\ viable[1][2] - viable[2][2] > Separation

\* Result of the fuzzy + LLM passes over `names`.
\*   sc: scores of the case-folded names against the guess
\*   llm: whether get_llm_client returned a client
\*   response: what llm.invoke gives if it is called
fuzzy_llm_pass(names, threshold, sc, llm, response, limit) ==
    LET keys == choice_keys(names, <<>>)
        top_matches == process_extract(sc, keys, limit)
        viable_matches == viable_of(top_matches)
        candidates == [k \in 1..Len(viable_matches) |->
                          choice_entry(names, viable_matches[k][1])]
        base == [winner |-> 0, method |-> "None", viable |-> viable_matches,
                 candidates |-> <<>>, llm_pass |-> FALSE, invoked |-> FALSE,
                 response |-> <<>>, raised |-> FALSE]
    IN IF viable_matches = <<>> THEN base
       ELSE IF fuzzy_accepts(viable_matches, threshold)
       THEN [base EXCEPT !.winner = choice_entry(names, viable_matches[1][1]),
                         !.method = "Fuzzy"]
       ELSE IF ~llm
       THEN [base EXCEPT !.candidates = candidates, !.llm_pass = TRUE]
       ELSE IF response = Raises
       THEN [base EXCEPT !.candidates = candidates, !.llm_pass = TRUE,
                         !.invoked = TRUE, !.response = response, !.raised = TRUE]
       ELSE IF response = NonStr
       THEN [base EXCEPT !.candidates = candidates, !.llm_pass = TRUE,
                         !.invoked = TRUE, !.response = response]
       ELSE LET w == _find_winner_from_llm_response(names, candidates, response)
            IN [base EXCEPT !.candidates = candidates, !.llm_pass = TRUE,
                            !.invoked = TRUE, !.response = response,
                            !.winner = w,
                            !.method = IF w # 0 THEN "LLM" ELSE "None"]

\* exact_matches = [c for c in customer_cache
\*                  if c.get('business_name', '').lower() == guessed_name.lower()]
exact_matches(names, guessed_name) ==
    LET idx == [i \in 1..Len(names) |-> i]
    IN SelectSeq(idx, LAMBDA i : lower(names[i]) = lower(guessed_name))

\* a plausible slip: comparing the names as written
exact_pass_case_sensitive(names, guessed_name) ==
    LET hits == {i \in 1..Len(names) : names[i] = guessed_name}
    IN IF Cardinality(hits) = 1 THEN CHOOSE i \in hits : TRUE ELSE 0

\* Step 1: the winner of the exact pass, 0 when there is none
exact_pass(names, guessed_name) ==
    LET em == exact_matches(names, guessed_name)
    IN IF Len(em) = 1 THEN em[1] ELSE 0

\* The customer cascade for a guessed name not yet in customer_link_cache
customer_cascade(names, guessed_name, threshold, sc, llm, response) ==
    LET w == exact_pass(names, guessed_name)
        nex == Len(exact_matches(names, guessed_name))
    IN IF w # 0
       THEN [winner |-> w, method |-> "Exact", viable |-> <<>>,
             candidates |-> <<>>, llm_pass |-> FALSE, invoked |-> FALSE,
             response |-> <<>>, raised |-> FALSE, exact |-> nex, fuzzy_pass |-> FALSE]
       ELSE LET r == fuzzy_llm_pass(names, threshold, sc, llm, response, CustomerLimit)
            IN [winner |-> r.winner, method |-> r.method, viable |-> r.viable,
                candidates |-> r.candidates, llm_pass |-> r.llm_pass,
                invoked |-> r.invoked, response |-> r.response, raised |-> r.raised,
                exact |-> nex, fuzzy_pass |-> TRUE]

\* Contact resolution for a (customer, guessed contact) pair not yet cached
contact_cascade(names, threshold, sc, llm, response) ==
    fuzzy_llm_pass(names, threshold, sc, llm, response, ContactLimit)

\* ------------------------------------------------------------------------
\* Data of a linking run
\* ------------------------------------------------------------------------
NoId == 0
NoName == <<>>

\* a Session as the ingestors store it (models/session_v2.py): meta,
\* context, insights and segments, flattened; one segment of one minute
Session(id, status, source, cname, kname) ==
    [session_id |-> id, processing_status |-> status, source_system |-> source,
     source_identifiers |-> <<id>>, processing_log |-> <<>>,
     customer_id |-> NoId, customer_name |-> cname,
     contact_id |-> NoId, contact_name |-> kname,
     last_updated_timestamp_utc |-> 0,
     session_start_time_utc |-> 0, session_end_time_utc |-> 60,
     session_duration_minutes |-> 1, source_title |-> <<"T", id>>,
     segments |-> <<SessionSegment(id, 0, 60, "a", EmptyMeta)>>]

\* a plausible slip: the segments are left out of the dump
model_dump_json_without_segments(session) ==
    [valid |-> TRUE, session |-> [session EXCEPT !.segments = <<>>], extra |-> {}]

\* session_object.model_dump_json(): the file holds every declared field
\* of the Session and no other key
model_dump_json(session) == [valid |-> TRUE, session |-> session, extra |-> {}]

\* a plausible slip: the guessed names are cleared on error
mark_error_clearing_guess(session) ==
    [session EXCEPT !.processing_status = "error",
                    !.customer_name = <<>>, !.contact_name = <<>>]

\* session.meta.processing_status = 'error' (lines 106 and 225)
mark_error(session) == [session EXCEPT !.processing_status = "error"]

\* linked_files += 1, error_files += 1 or skipped_files += 1
count_outcome(cnt, outcome) == [cnt EXCEPT ![outcome] = @ + 1]

\* a plausible slip: the LLM counter also counts answers that named no one
count_method_without_winner(cnt, method) ==
    [cnt EXCEPT !.linked_by_exact = IF method = "Exact" THEN @ + 1 ELSE @,
                !.linked_by_fuzzy = IF method = "Fuzzy" THEN @ + 1 ELSE @,
                !.linked_by_llm = IF method \in {"LLM", "None"} THEN @ + 1 ELSE @]

\* linked_by_exact / linked_by_fuzzy / linked_by_llm += 1 (lines 124-158)
count_method(cnt, method) ==
    [cnt EXCEPT !.linked_by_exact = IF method = "Exact" THEN @ + 1 ELSE @,
                !.linked_by_fuzzy = IF method = "Fuzzy" THEN @ + 1 ELSE @,
                !.linked_by_llm = IF method = "LLM" THEN @ + 1 ELSE @]

\* roster entries of lean_customer_cache.json
Customer(id, name, contacts) == [id |-> id, business_name |-> name, contacts |-> contacts]

Contact(id, name) == [id |-> id, name |-> name]

\* a plausible slip: Sessions left in error are taken up again
needs_linking_or_error(session) ==
    session.processing_status \in {"Needs Linking", "error"}

\* line 89: session.meta.processing_status == 'Needs Linking'
needs_linking(session) == session.processing_status = "Needs Linking"

\* a plausible slip: an empty denylist
no_unlinkable_sources == {}

\* unlinkable_sources = ['SillyTavern'] (line 94)
unlinkable_sources == {"SillyTavern"}

\* a plausible slip: a built-in roster stands in when the load fails
load_or_builtin_roster(file) ==
    IF file.ok THEN file.data
    ELSE <<[id |-> 101, business_name |-> <<"A", "b">>, contacts |-> <<>>]>>

\* cuis_handler.load_lean_customer_cache: the list, or None (<<>>) on failure
load_lean_customer_cache(file) == IF file.ok THEN file.data ELSE <<>>

customer_names(cache) == [i \in 1..Len(cache) |-> cache[i].business_name]

contact_names(contacts) == [i \in 1..Len(contacts) |-> contacts[i].name]

\* a plausible slip: the outcome is never written to the cache
Put_forgets(f, k, v) == f

\* cache[key] = outcome (lines 161 and 212)
Put(f, k, v) == [x \in DOMAIN f \cup {k} |-> IF x = k THEN v ELSE f[x]]

\* ------------------------------------------------------------------------
\* What the environment can supply to one cascade evaluation
\* ------------------------------------------------------------------------
Ab == <<"A", "b">>
AB == <<"A", "B">>
Abc == <<"A", "b", "c">>
Xy == <<"X", "y">>
ab == <<"a", "b">>
Abx == <<"A", "b", "x">>
PaddedAbc == <<" ", "a", "b", "c", " ">>
Abcd == <<"A", "b", "c", "d">>

RosterNames == {Ab, AB, Abc, Xy}
Guesses == {ab, Abx}
Responses == RosterNames \cup {PaddedAbc, Abcd, NonStr, Raises}
ScoreLevels == {50, 60, 85, 95, 96}
Thresholds == {50, 85}

\* scores token_set_ratio can give the case-folded names against the
\* guess: a name equal to the guess after case folding scores 100, any
\* other name one of the sampled ScoreLevels
ScoreMaps(names, guessed_name) ==
    LET keys == {lower(names[i]) : i \in {j \in 1..Len(names) : names[j] # <<>>}}
    IN {sc \in [keys -> ScoreLevels \cup {100}] :
          \A k \in keys : (sc[k] = 100) <=> (k = lower(guessed_name))}

\* whether llm.invoke is reached by the fuzzy/LLM passes
reaches_invoke(names, threshold, sc, llm, limit) ==
    fuzzy_llm_pass(names, threshold, sc, llm, <<>>, limit).invoked

\* ------------------------------------------------------------------------
\* link_customers_to_sessions
\* ------------------------------------------------------------------------
LinkFrame == UNCHANGED <<roster_file, fuzzy_threshold, llm_config, customer_cache>>
                /\ UNCHANGED <<cvars, bvars, run>>

\* lines 58-63: the roster loads and the scan starts
LoadRoster ==
    /\ lpc = "start"
    /\ load_lean_customer_cache(roster_file) # <<>>
    /\ customer_cache' = load_lean_customer_cache(roster_file)
    /\ lpc' = "loop"
    /\ next_entry' = 1
    /\ UNCHANGED <<roster_file, fuzzy_threshold, llm_config, store, counts,
                   customer_link_cache, contact_link_cache, saves, llm_calls,
                   clock, last_step, evaluations>>
    /\ UNCHANGED <<cvars, bvars, run>>

\* lines 59-61: `if not customer_cache: ... return`
AbortRun ==
    /\ lpc = "start"
    /\ load_lean_customer_cache(roster_file) = <<>>
    /\ lpc' = "aborted"
    /\ UNCHANGED <<roster_file, fuzzy_threshold, llm_config, store, customer_cache,
                   next_entry, counts, customer_link_cache, contact_link_cache,
                   saves, llm_calls, clock, last_step, evaluations>>
    /\ UNCHANGED <<cvars, bvars, run>>

\* a plausible slip: caching contact outcomes by the guessed contact alone
contact_cache_key_without_customer(authoritative_customer_name, guessed_contact) ==
    <<<<>>, guessed_contact>>

\* contact_cache_key = (authoritative_customer_name, guessed_contact)
contact_cache_key(authoritative_customer_name, guessed_contact) ==
    <<authoritative_customer_name, guessed_contact>>

\* how the cascade runs of a linking run are filed, per cache and cache key
CustomerEval(guessed_name) == <<"customer", <<>>, guessed_name>>

ContactEval(key) == <<"contact">> \o key

\* one more cascade run for `key`: its llm.invoke call and its outcome
Tally(ev, key, invoked, outcome) ==
    LET old == IF key \in DOMAIN ev THEN ev[key]
               ELSE [runs |-> 0, llm |-> 0, outcome |-> outcome]
    IN [x \in DOMAIN ev \cup {key} |->
          IF x = key
          THEN [runs |-> old.runs + 1,
                llm |-> old.llm + (IF invoked THEN 1 ELSE 0),
                outcome |-> old.outcome]
          ELSE ev[x]]

\* the cascades one iteration ran (lines 119-158 and 185-209)
Evaluated(ev, step) ==
    LET e1 == IF step.kind = "resolved"
              THEN Tally(ev, CustomerEval(step.guessed_name),
                         step.customer_pass.invoked, <<step.winner>>)
              ELSE ev
    IN IF step.contact = "resolved"
       THEN Tally(e1, ContactEval(step.contact_key),
                  step.contact_pass.invoked, step.contact_winner)
       ELSE e1

\* the end of one loop iteration: everything it wrote
Commit(sess, saved, cnt, ccache, kcache, calls, step, pc) ==
    /\ store' = IF saved THEN [store EXCEPT ![next_entry] = model_dump_json(sess)]
                ELSE store
    /\ saves' = IF saved THEN [saves EXCEPT ![next_entry] = @ + 1] ELSE saves
    /\ counts' = cnt
    /\ customer_link_cache' = ccache
    /\ contact_link_cache' = kcache
    /\ llm_calls' = calls
    /\ last_step' = [step EXCEPT !.session = sess]
    /\ evaluations' = Evaluated(evaluations, step)
    /\ lpc' = pc
    /\ next_entry' = IF pc = "crashed" THEN next_entry ELSE next_entry + 1
    /\ clock' = clock + 1
    /\ LinkFrame

\* lines 215-231: fold the contact outcome in, refresh the timestamp, save
FinishLinked(sess, cnt, ccache, kcache, calls, step, contact_winner) ==
    LET s2 == IF contact_winner # <<>>
              THEN [sess EXCEPT !.contact_id = contact_winner[1].id,
                                !.contact_name = contact_winner[1].name]
              ELSE sess
        s3 == [s2 EXCEPT !.last_updated_timestamp_utc = clock + 1]
    IN Commit(s3, TRUE, cnt, ccache, kcache, calls,
              [step EXCEPT !.contact_winner = contact_winner], "loop")

\* lines 171-221: contact linking for a session whose customer is `w`
ContactStage(sess, guessed_contact, w, cnt, ccache, calls, step) ==
    LET known_contacts == customer_cache[w].contacts
        authoritative_customer_name == customer_cache[w].business_name
        key == contact_cache_key(authoritative_customer_name, guessed_contact)
        knames == contact_names(known_contacts)
    IN IF ~(guessed_contact # <<>> /\ known_contacts # <<>>
            /\ authoritative_customer_name # <<>>)
       THEN FinishLinked(sess, cnt, ccache, contact_link_cache, calls,
                         [step EXCEPT !.contact = "not_attempted"], <<>>)
       ELSE IF key \in DOMAIN contact_link_cache
       THEN FinishLinked(sess, cnt, ccache, contact_link_cache, calls,
                         [step EXCEPT !.contact = "cached", !.contact_key = key],
                         contact_link_cache[key])
       ELSE \E csc \in ScoreMaps(knames, guessed_contact) :
            \E cresponse \in
                 (IF reaches_invoke(knames, fuzzy_threshold, csc,
                                    get_llm_client(llm_config), ContactLimit)
                  THEN Responses ELSE {<<>>}) :
              LET r == contact_cascade(knames, fuzzy_threshold, csc,
                                       get_llm_client(llm_config), cresponse)
                  calls2 == IF r.invoked THEN calls + 1 ELSE calls
                  cw == IF r.winner = 0 THEN <<>> ELSE <<known_contacts[r.winner]>>
                  step2 == [step EXCEPT !.contact = "resolved", !.contact_pass = r,
                                        !.contact_key = key, !.contact_scores = csc]
              IN IF r.raised
                 THEN \* the exception leaves the function: nothing is saved
                      Commit(sess, FALSE, cnt, ccache,
                             contact_link_cache, calls2, step2, "crashed")
                 ELSE FinishLinked(sess, cnt, ccache,
                                   Put(contact_link_cache, key, cw),
                                   calls2, step2, cw)

\* a plausible slip: the guessed name is left on the Session
link_to_keeping_guess(session, customer) ==
    [session EXCEPT !.customer_id = customer.id,
                    !.processing_status = "Linked"]

\* lines 164-166: the winner's id and name replace the guess
link_to(session, customer) ==
    [session EXCEPT !.customer_id = customer.id,
                    !.customer_name = customer.business_name,
                    !.processing_status = "Linked"]

\* lines 163-231: what the loop does once `winner` is decided
AfterCustomer(session, w, cnt, ccache, calls, step) ==
    IF w # 0
    THEN LET linked == link_to(session, customer_cache[w])
         IN ContactStage(linked, session.contact_name, w,
                         count_outcome(cnt, "linked_files"), ccache, calls, step)
    ELSE Commit([mark_error(session) EXCEPT
                    !.last_updated_timestamp_utc = clock + 1],
                TRUE, count_outcome(cnt, "error_files"), ccache,
                contact_link_cache, calls, step, "loop")

BlankStep(kind, guessed_name) ==
    [kind |-> kind, entry |-> next_entry, guessed_name |-> guessed_name,
     winner |-> 0, customer_pass |-> <<>>, scores |-> EmptyMap,
     contact |-> "none", contact_key |-> <<>>, contact_scores |-> EmptyMap,
     contact_pass |-> <<>>, contact_winner |-> <<>>,
     session |-> store[next_entry].session]

\* lines 74-231: one iteration of the scan
ProcessEntry ==
    /\ lpc = "loop"
    /\ next_entry <= Len(store)
    /\ LET file == store[next_entry]
           session == file.session
           guessed_name == session.customer_name
           cnt == [counts EXCEPT !.processed_files = @ + 1]
           names == customer_names(customer_cache)
           llm == get_llm_client(llm_config)
       IN IF ~file.valid
          THEN \* load_session_from_file returned None
               Commit(session, FALSE, count_outcome(cnt, "error_files"),
                      customer_link_cache, contact_link_cache, llm_calls,
                      BlankStep("load_error", <<>>), "loop")
          ELSE IF \/ ~needs_linking(session)
                  \/ session.source_system \in unlinkable_sources
          THEN Commit(session, FALSE, count_outcome(cnt, "skipped_files"),
                      customer_link_cache, contact_link_cache, llm_calls,
                      BlankStep("skipped", <<>>), "loop")
          ELSE IF guessed_name = <<>>
          THEN \* lines 104-109: no timestamp refresh on this path
               Commit(mark_error(session), TRUE,
                      count_outcome(cnt, "error_files"),
                      customer_link_cache, contact_link_cache, llm_calls,
                      BlankStep("no_guess", <<>>), "loop")
          ELSE IF guessed_name \in DOMAIN customer_link_cache
          THEN AfterCustomer(session, customer_link_cache[guessed_name], cnt,
                             customer_link_cache, llm_calls,
                             [BlankStep("cached", guessed_name) EXCEPT
                                 !.winner = customer_link_cache[guessed_name]])
          ELSE \E sc \in (IF exact_pass(names, guessed_name) # 0
                          THEN {EmptyMap} ELSE ScoreMaps(names, guessed_name)) :
               \E response \in
                    (IF /\ exact_pass(names, guessed_name) = 0
                        /\ reaches_invoke(names, fuzzy_threshold, sc, llm, CustomerLimit)
                     THEN Responses ELSE {<<>>}) :
                 LET r == customer_cascade(names, guessed_name, fuzzy_threshold,
                                           sc, llm, response)
                     calls == IF r.invoked THEN llm_calls + 1 ELSE llm_calls
                     cnt2 == count_method(cnt, r.method)
                     step == [BlankStep("resolved", guessed_name) EXCEPT
                                 !.winner = r.winner, !.customer_pass = r,
                                 !.scores = sc]
                 IN IF r.raised
                    THEN Commit(session, FALSE, cnt, customer_link_cache,
                                contact_link_cache, calls, step, "crashed")
                    ELSE AfterCustomer(session, r.winner, cnt2,
                                       Put(customer_link_cache, guessed_name, r.winner),
                                       calls, step)

\* lines 233-238: the scan is exhausted, the summary is logged
FinishRun ==
    /\ lpc = "loop"
    /\ next_entry > Len(store)
    /\ lpc' = "done"
    /\ UNCHANGED <<roster_file, fuzzy_threshold, llm_config, store, customer_cache,
                   next_entry, counts, customer_link_cache, contact_link_cache,
                   saves, llm_calls, clock, last_step, evaluations>>
    /\ UNCHANGED <<cvars, bvars, run>>

NextLink == LoadRoster \/ AbortRun \/ ProcessEntry \/ FinishRun

\* ------------------------------------------------------------------------
\* Inputs of the linker specification
\* ------------------------------------------------------------------------
\* customers without contacts, ids 101, 102, ... in roster order
PlainRoster(names) == [i \in 1..Len(names) |-> Customer(100 + i, names[i], <<>>)]

\* a stored file: the Session it parses to and the keys the model does
\* not declare (Session.model_validate ignores them)
SessionFile(s) == [valid |-> TRUE, session |-> s, extra |-> {"reviewer_notes"}]

RunStart ==
    /\ lpc = "start"
    /\ customer_cache = <<>>
    /\ next_entry = 0
    /\ counts = ZeroCounts
    /\ customer_link_cache = EmptyMap
    /\ contact_link_cache = EmptyMap
    /\ saves = [i \in 1..Len(store) |-> 0]
    /\ llm_calls = 0
    /\ clock = 0
    /\ last_step = NoStep
    /\ evaluations = EmptyMap
    /\ run = 1

\* one session needing a link, rosters of every shape up to MaxRoster
InitCascade ==
    /\ \/ \E names \in SeqsUpTo(RosterNames, MaxRoster) :
             roster_file = [ok |-> TRUE, data |-> PlainRoster(names)]
       \/ roster_file = [ok |-> FALSE, data |-> <<>>]
    /\ fuzzy_threshold \in Thresholds
    /\ llm_config \in LlmConfigs
    /\ \E g \in Guesses :
          store = <<SessionFile(Session(1, "Needs Linking", "ScreenConnect", g, <<>>))>>
    /\ RunStart
    /\ ClusterIdle
    /\ BuildIdle

SpecLink == InitCascade /\ [][NextLink]_vars

\* several sessions of every kind against rosters whose customers have
\* contacts (the whole loop body, caches included)
MaxSessions == 2

ContactLists(c) ==
    {<<>>, <<Contact(1000 + 10 * c + 1, Xy)>>,
     <<Contact(1000 + 10 * c + 1, Xy), Contact(1000 + 10 * c + 2, Abc)>>}

RunRosters ==
    {<<Customer(101, Ab, ct)>> : ct \in ContactLists(1)}
    \cup {<<Customer(101, Ab, <<Contact(1011, Xy)>>), Customer(102, nm, ct)>> :
             nm \in {Ab, Abc}, ct \in ContactLists(2) \ {<<>>}}

RunSessions(id) ==
    {[valid |-> FALSE, session |-> Session(id, "", "", <<>>, <<>>), extra |-> {}],
     SessionFile(Session(id, "Linked", "ScreenConnect", Ab, <<>>)),
     SessionFile(Session(id, "Needs Linking", "SillyTavern", <<>>, <<>>)),
     SessionFile(Session(id, "Needs Linking", "ScreenConnect", <<>>, <<>>)),
     SessionFile(Session(id, "Needs Linking", "ScreenConnect", ab, Xy)),
     SessionFile(Session(id, "Needs Linking", "ScreenConnect", Abx, Xy)),
     SessionFile(Session(id, "Needs Linking", "ScreenConnect", Abx, <<>>))}

InitRun ==
    /\ \/ roster_file \in {[ok |-> TRUE, data |-> r] : r \in RunRosters}
       \/ roster_file = [ok |-> FALSE, data |-> <<>>]
    /\ fuzzy_threshold = 85
    /\ llm_config \in {"google_gemini", "no_llm_config"}
    /\ store \in UNION {{f \in [1..n -> UNION {RunSessions(i) : i \in 1..n}] :
                            \A i \in 1..n : f[i] \in RunSessions(i)} :
                        n \in 0..MaxSessions}
    /\ RunStart
    /\ ClusterIdle
    /\ BuildIdle

SpecRun == InitRun /\ [][NextLink]_vars

\* the operator runs link_customers_to_sessions again over the store a
\* finished run left behind, with the same roster and configuration: the
\* function's locals (lines 58-71) start afresh, the files stay as they are
RetryRun ==
    /\ lpc = "done"
    /\ run = 1
    /\ run' = 2
    /\ lpc' = "start"
    /\ customer_cache' = <<>>
    /\ next_entry' = 0
    /\ counts' = ZeroCounts
    /\ customer_link_cache' = EmptyMap
    /\ contact_link_cache' = EmptyMap
    /\ saves' = [i \in 1..Len(store) |-> 0]
    /\ llm_calls' = 0
    /\ last_step' = NoStep
    /\ evaluations' = EmptyMap
    /\ UNCHANGED <<roster_file, fuzzy_threshold, llm_config, store, clock>>
    /\ UNCHANGED <<cvars, bvars>>

NextRetry == LoadRoster \/ AbortRun \/ ProcessEntry \/ FinishRun \/ RetryRun

SpecRetry == InitRun /\ [][NextRetry]_vars

\* ------------------------------------------------------------------------
\* Properties of the clusterer
\* ------------------------------------------------------------------------
Called == cpc # "ready"

\* running maximum of end_time over the first k members of a group
RECURSIVE RunMaxEnd(_, _)
RunMaxEnd(g, k) ==
    IF k = 1 THEN g[1].end_time_utc
    ELSE Max2(RunMaxEnd(g, k - 1), g[k].end_time_utc)

GroupMaxEnd(g) == RunMaxEnd(g, Len(g))

IdsOf(s) == {s[i].segment_id : i \in 1..Len(s)}

\* the grouping as a partition: which segments ended up together
Partition(gs) == {IdsOf(gs[g]) : g \in 1..Len(gs)}

\* flat positions (in the sorted list) at which a returned group starts
RECURSIVE GroupStartsFrom(_, _)
GroupStartsFrom(gs, offset) ==
    IF gs = <<>> THEN {}
    ELSE {offset + 1} \cup GroupStartsFrom(Tail(gs), offset + Len(Head(gs)))

GroupStarts(gs) == GroupStartsFrom(gs, 0)

\* C1 (as claimed): between adjacent groups either the later group's first
\* segment starts more than max_gap after the earlier group's effective end
\* (the maximum end_time over all its members), or some grouping key
\* resolves differently on the earlier group's last and the later group's
\* first segment.
C1_BoundaryAgainstEffectiveEnd ==
    Called =>
      \A g \in 1..(Len(groups) - 1) :
        LET earlier == groups[g]
            last == earlier[Len(earlier)]
            first == groups[g + 1][1]
        IN \/ first.start_time_utc - GroupMaxEnd(earlier) > time_gap
           \/ \E n \in 1..Len(grouping_keys) :
                 _get_key_value(first, grouping_keys[n]) #
                 _get_key_value(last, grouping_keys[n])

\* C2: inside a group every non-first member starts at most max_gap after
\* the running maximum end_time of the members before it.
C2_GapWithinGroup ==
    Called =>
      \A g \in 1..Len(groups) :
        \A k \in 2..Len(groups[g]) :
          groups[g][k].start_time_utc - RunMaxEnd(groups[g], k - 1) <= time_gap

\* C2 witness: a group was extended past a member that ends before the
\* group's running maximum (overlapping segments), with a positive gap.
C2_Witness ==
    /\ Called
    /\ \E g \in 1..Len(groups) :
         \E k \in 3..Len(groups[g]) :
            /\ groups[g][k - 1].end_time_utc < RunMaxEnd(groups[g], k - 1)
            /\ groups[g][k].start_time_utc > groups[g][k - 1].end_time_utc

\* C3: the groups are non-empty and their concatenation is the input sorted
\* ascending by start_time with ties in input order; nothing is dropped or
\* duplicated, sizes sum to the input length, empty input gives no group.
C3_NoLoss ==
    Called =>
      LET flat == Flatten(groups)
      IN /\ \A g \in 1..Len(groups) : groups[g] # <<>>
         /\ Len(flat) = Len(segments_in)
         /\ \A i \in 1..Len(segments_in) :
               Cardinality({j \in 1..Len(flat) : flat[j] = segments_in[i]}) = 1
         /\ \A i, j \in 1..Len(flat) :
               i < j =>
                 \/ flat[i].start_time_utc < flat[j].start_time_utc
                 \/ /\ flat[i].start_time_utc = flat[j].start_time_utc
                    /\ flat[i].segment_id < flat[j].segment_id
         /\ (segments_in = <<>> => groups = <<>>)

\* C3 witness: an unsorted input with a start_time tie was split into
\* several groups, the last one being the group still open at loop end.
C3_Witness ==
    /\ Called
    /\ Len(groups) >= 2
    /\ Len(segments_in) = MaxSegs
    /\ \E i, j \in 1..Len(segments_in) :
          i < j /\ segments_in[i].start_time_utc > segments_in[j].start_time_utc
    /\ \E i, j \in 1..Len(segments_in) :
          i < j /\ segments_in[i].start_time_utc = segments_in[j].start_time_utc

\* C4 (as claimed): any two orderings of the same segments give the same
\* grouping (compared as partitions: the same segments end up together).
C4_OrderIndependent ==
    cpc = "recalled" => Partition(groups_reordered) = Partition(groups)

\* the two orderings list segments of equal start_time in the same order
TiesInSameOrder ==
    \A i, j \in 1..Len(reordered) :
       (i < j /\ reordered[i].start_time_utc = reordered[j].start_time_utc)
          => reordered[i].segment_id < reordered[j].segment_id

\* C4 (amended): two orderings that agree on the relative order of the
\* segments sharing a start_time give identical groupings.
C4_OrderIndependentUpToTies ==
    (cpc = "recalled" /\ TiesInSameOrder) => groups_reordered = groups

\* C4 witness: a genuinely different ordering, with a tie kept in order,
\* clustered into several groups.
C4_Witness ==
    /\ cpc = "recalled"
    /\ TiesInSameOrder
    /\ reordered # segments_in
    /\ Len(groups_reordered) >= 2
    /\ \E i, j \in 1..Len(reordered) :
          i < j /\ reordered[i].start_time_utc = reordered[j].start_time_utc

\* first-class fields of a Segment
FirstClassFields == {"segment_id", "start_time_utc", "end_time_utc", "author", "metadata"}

\* value a key has in the generic bag, None when absent
BagValue(segment, key) ==
    IF key \in DOMAIN segment.metadata THEN segment.metadata[key] ELSE None

KeyDrift(prev, cur, key) ==
    IF key \in FirstClassFields THEN prev[key] # cur[key]
    ELSE BagValue(prev, key) # BagValue(cur, key)

Resolved == lpc \in {"loop", "done", "crashed"} /\ last_step.kind = "resolved"

RosterNamesNow == customer_names(customer_cache)

\* roster positions whose display name equals the guess, ignoring case
ExactSet == {i \in 1..Len(customer_cache) :
                lower(RosterNamesNow[i]) = lower(last_step.guessed_name)}

ProcessedSession == store[last_step.entry].session

\* C6: with exactly one roster name equal to the guess ignoring case, that
\* entry is the winner, by method Exact; no fuzzy score is computed, the LLM
\* is not invoked, and the Session is linked to that entry.
C6_ExactPriority ==
    (Resolved /\ Cardinality(ExactSet) = 1) =>
        LET e == CHOOSE i \in ExactSet : TRUE
        IN /\ last_step.winner = e
           /\ last_step.customer_pass.method = "Exact"
           /\ ~last_step.customer_pass.fuzzy_pass
           /\ ~last_step.customer_pass.invoked
           /\ llm_calls = 0
           /\ counts.linked_by_exact = 1
           /\ counts.linked_by_fuzzy = 0 /\ counts.linked_by_llm = 0
           /\ ProcessedSession.customer_id = customer_cache[e].id
           /\ ProcessedSession.processing_status = "Linked"

\* C6 witness: the guess "ab" meets a roster holding "Ab" once next to the
\* merely similar "Abc"; the Session is linked to the "Ab" entry.
C6_Witness ==
    /\ Resolved
    /\ Cardinality(ExactSet) = 1
    /\ \E i \in 1..Len(customer_cache) : customer_cache[i].business_name = Abc
    /\ last_step.customer_pass.method = "Exact"
    /\ ProcessedSession.customer_name = Ab

\* C7 (as claimed): with two or more roster names equal to the guess
\* ignoring case the exact pass picks none, and a winner is never chosen
\* from roster entries of one and the same name by their position alone.
C7_NoPickAmongTied ==
    (Resolved /\ Cardinality(ExactSet) >= 2) =>
        /\ last_step.customer_pass.method # "Exact"
        /\ last_step.customer_pass.fuzzy_pass
        /\ \A j \in ExactSet :
              (last_step.winner \in ExactSet /\ j # last_step.winner)
                 => RosterNamesNow[j] # RosterNamesNow[last_step.winner]

\* the distinct non-empty roster names and their scores in this evaluation
ScoredNames == {RosterNamesNow[i] : i \in {j \in 1..Len(customer_cache) :
                                             RosterNamesNow[j] # <<>>}}

ScoreNow(n) == last_step.scores[lower(n)]

ViableNames == {n \in ScoredNames : ScoreNow(n) >= 60}

BestName == CHOOSE n \in ViableNames : \A m \in ViableNames : ScoreNow(n) >= ScoreNow(m)

SecondScore ==
    LET rest == ViableNames \ {BestName}
    IN ScoreNow(CHOOSE n \in rest : \A m \in rest : ScoreNow(n) >= ScoreNow(m))

FuzzyPassRan == Resolved /\ last_step.customer_pass.fuzzy_pass

\* C8: in the fuzzy pass the top candidate wins by method Fuzzy exactly when
\* best >= threshold and (one viable candidate or best - second > 10); any
\* other case with a viable candidate goes to the LLM pass; with no viable
\* candidate there is no winner and no LLM pass.
C8_FuzzyRule ==
    FuzzyPassRan =>
        LET accept == /\ ViableNames # {}
                      /\ ScoreNow(BestName) >= fuzzy_threshold
                      /\ \/ Cardinality(ViableNames) = 1
                         \/ ScoreNow(BestName) - SecondScore > 10
            r == last_step.customer_pass
        IN /\ (r.method = "Fuzzy") <=> accept
           /\ r.method = "Fuzzy" =>
                 /\ last_step.winner # 0
                 /\ ScoreNow(RosterNamesNow[last_step.winner]) = ScoreNow(BestName)
                 /\ counts.linked_by_fuzzy = 1
           /\ (ViableNames # {} /\ ~accept) <=> r.llm_pass
           /\ ViableNames = {} => (last_step.winner = 0 /\ ~r.invoked)

\* C8 witness: two viable candidates, best at or above the threshold and
\* exactly 10 above the runner-up: not accepted, handed to the LLM pass.
C8_Witness ==
    /\ FuzzyPassRan
    /\ Cardinality(ViableNames) = 2
    /\ ScoreNow(BestName) >= fuzzy_threshold
    /\ ScoreNow(BestName) - SecondScore = 10
    /\ last_step.customer_pass.llm_pass
    /\ last_step.customer_pass.method # "Fuzzy"

LlmAnswered ==
    /\ Resolved
    /\ last_step.customer_pass.invoked
    /\ last_step.customer_pass.response \notin {NonStr, Raises}

\* C9 (as claimed): an LLM winner is a candidate that was sent to the LLM
\* and whose name equals the response text ignoring case only.
C9_LlmMatchIgnoringCaseOnly ==
    (LlmAnswered /\ last_step.winner # 0) =>
        /\ \E k \in 1..Len(last_step.customer_pass.candidates) :
              last_step.customer_pass.candidates[k] = last_step.winner
        /\ lower(RosterNamesNow[last_step.winner]) = lower(last_step.customer_pass.response)

\* C9 (amended): the LLM pass yields a winner exactly when some candidate
\* sent to the LLM has a name equal to the response after trimming
\* surrounding whitespace and ignoring case; the winner is such a candidate
\* and every candidate sent is a viable one.
C9_LlmMatchTrimmedIgnoringCase ==
    LlmAnswered =>
        LET r == last_step.customer_pass
            sent == {r.candidates[k] : k \in 1..Len(r.candidates)}
            same(i) == lower(strip(RosterNamesNow[i])) = lower(strip(r.response))
        IN /\ (last_step.winner # 0) <=> (\E i \in sent : same(i))
           /\ last_step.winner # 0 =>
                 /\ last_step.winner \in sent
                 /\ same(last_step.winner)
                 /\ r.method = "LLM"
           /\ \A i \in sent : ScoreNow(RosterNamesNow[i]) >= 60
           /\ last_step.winner = 0 => ProcessedSession.processing_status = "error"

\* C9 witness: the LLM answers a near-miss of a candidate name ("Abcd" for
\* the candidate "Abc") and the Session ends in error with no winner.
C9_Witness ==
    /\ LlmAnswered
    /\ last_step.customer_pass.response = Abcd
    /\ \E k \in 1..Len(last_step.customer_pass.candidates) :
          RosterNamesNow[last_step.customer_pass.candidates[k]] = Abc
    /\ last_step.winner = 0
    /\ ProcessedSession.processing_status = "error"

\* C10: when the cascade reaches the LLM pass and no LLM client can be
\* built from the configuration, the LLM is not invoked, there is no
\* winner, nothing is raised and the Session is set to error.
C10_LlmUnavailable ==
    (Resolved /\ last_step.customer_pass.llm_pass /\ llm_config # "google_gemini") =>
        /\ ~last_step.customer_pass.invoked
        /\ llm_calls = 0
        /\ last_step.winner = 0
        /\ last_step.customer_pass.method = "None"
        /\ lpc # "crashed"
        /\ ProcessedSession.processing_status = "error"
        /\ ProcessedSession.customer_id = NoId

\* C10 witness: a lone viable candidate scoring 60 against threshold 85,
\* no LLM configured: the Session ends in error.
C10_Witness ==
    /\ Resolved
    /\ llm_config = "no_llm_config"
    /\ fuzzy_threshold = 85
    /\ last_step.customer_pass.llm_pass
    /\ Len(last_step.customer_pass.viable) = 1
    /\ last_step.customer_pass.viable[1][2] = 60
    /\ last_step.winner = 0
    /\ ProcessedSession.processing_status = "error"

\* ------------------------------------------------------------------------
\* Properties of contact resolution and of the per-run caches
\* ------------------------------------------------------------------------
\* the latest iteration got as far as deciding on a customer
Decided ==
    /\ lpc \in {"loop", "done", "crashed"}
    /\ last_step.kind \in {"cached", "resolved"}

\* the latest iteration ran the contact passes (no cache hit)
ContactRan == Decided /\ last_step.contact = "resolved"

KnownContactNames ==
    [k \in 1..Len(customer_cache[last_step.winner].contacts) |->
        customer_cache[last_step.winner].contacts[k].name]

\* C11 (as claimed): resolving a guessed contact name against the winning
\* customer's contact list returns the winner the customer cascade returns
\* for the same guessed name, candidate names, scores, threshold and LLM
\* behaviour (exact pass first, then the fuzzy and LLM passes).
C11_ContactCascadeIsCustomerCascade ==
    (ContactRan /\ ~last_step.contact_pass.raised) =>
        LET r == last_step.contact_pass
            c == customer_cascade(KnownContactNames, last_step.contact_key[2],
                                  fuzzy_threshold, last_step.contact_scores,
                                  llm_config = "google_gemini", r.response)
        IN r.winner = c.winner

\* C12: every stored Session that carries a contact id carries the id and
\* name of a contact listed under the roster customer whose id the Session
\* carries, whether the contact came from the passes or from the cache.
C12_ContactOfLinkedCustomer ==
    \A i \in 1..Len(store) :
        LET s == store[i].session
        IN (store[i].valid /\ s.contact_id # NoId) =>
              \E c \in 1..Len(customer_cache) :
                 /\ customer_cache[c].id = s.customer_id
                 /\ \E k \in 1..Len(customer_cache[c].contacts) :
                       /\ customer_cache[c].contacts[k].id = s.contact_id
                       /\ customer_cache[c].contacts[k].name = s.contact_name

\* a contact taken from the cache, in a run whose roster lists a contact
\* of that name under two customers
C12_Witness ==
    /\ Decided
    /\ last_step.contact = "cached"
    /\ last_step.contact_winner # <<>>
    /\ ProcessedSession.contact_id = last_step.contact_winner[1].id
    /\ Len(customer_cache) = 2
    /\ \A c \in 1..2 : \E k \in 1..Len(customer_cache[c].contacts) :
          customer_cache[c].contacts[k].name = ProcessedSession.contact_name

\* C13: in one run each customer key and each contact key is resolved by
\* at most one cascade run with at most one llm.invoke call, there are no
\* more llm.invoke calls than resolved keys, and an iteration that finds its
\* key cached uses the outcome of that one run, a cached "no winner" too.
C13_ResolvedOncePerKey ==
    /\ \A k \in DOMAIN evaluations :
          evaluations[k].runs <= 1 /\ evaluations[k].llm <= 1
    /\ llm_calls <= Cardinality(DOMAIN evaluations)
    /\ (Decided /\ last_step.kind = "cached") =>
          /\ <<"customer", <<>>, last_step.guessed_name>> \in DOMAIN evaluations
          /\ evaluations[<<"customer", <<>>, last_step.guessed_name>>].outcome
                = <<last_step.winner>>
    /\ (Decided /\ last_step.contact = "cached") =>
          /\ <<"contact">> \o last_step.contact_key \in DOMAIN evaluations
          /\ evaluations[<<"contact">> \o last_step.contact_key].outcome
                = last_step.contact_winner

\* a second Session with the same guess reuses a cached "no winner" that
\* cost one llm.invoke call
C13_Witness ==
    /\ Decided
    /\ last_step.kind = "cached"
    /\ last_step.winner = 0
    /\ evaluations[<<"customer", <<>>, last_step.guessed_name>>].llm = 1
    /\ llm_calls = 1
    /\ ProcessedSession.processing_status = "error"

\* ------------------------------------------------------------------------
\* Properties of the Session transitions and of the run as a whole
\* ------------------------------------------------------------------------
\* the latest iteration handled a Session that was eligible for linking
Eligible ==
    /\ lpc \in {"loop", "done", "crashed"}
    /\ last_step.kind \in {"no_guess", "cached", "resolved"}

CustomerRaised == last_step.kind = "resolved" /\ last_step.customer_pass.raised

ContactRaised ==
    /\ last_step.kind \in {"cached", "resolved"}
    /\ last_step.contact = "resolved"
    /\ last_step.contact_pass.raised

C15_CustomerWinnerMeansLinkedAndSaved ==
    (Decided /\ last_step.winner # 0) =>
        /\ ProcessedSession.processing_status = "Linked"
        /\ saves[last_step.entry] = 1

Ineligible(s) ==
    s.processing_status # "Needs Linking" \/ s.source_system = "SillyTavern"

\* C16: no step of a run changes a stored Session whose status is not
\* Needs Linking or whose source is denylisted, or saves it; the iteration
\* that scans it only counts it as skipped.
C16_SkippedSessionsUntouched ==
    [][\A i \in 1..Len(store) :
          (store[i].valid /\ Ineligible(store[i].session)) =>
             /\ store'[i] = store[i]
             /\ saves'[i] = saves[i]
             /\ (lpc = "loop" /\ next_entry = i) =>
                   /\ counts'.skipped_files = counts.skipped_files + 1
                   /\ counts'.error_files = counts.error_files
                   /\ counts'.linked_files = counts.linked_files]_vars

\* a run that ended after skipping a denylisted Session that needed linking
C16_Witness ==
    /\ lpc = "done"
    /\ last_step.kind = "skipped"
    /\ ProcessedSession.source_system = "SillyTavern"
    /\ ProcessedSession.processing_status = "Needs Linking"
    /\ counts.skipped_files >= 1
    /\ saves[last_step.entry] = 0

\* C17 (as claimed): every eligible Session a run has scanned is stored
\* with status Linked or error and has been saved exactly once; no Session
\* is saved twice.
C17_EligibleTerminalAndSavedOnce ==
    /\ \A i \in 1..Len(saves) : saves[i] <= 1
    /\ Eligible =>
          /\ ProcessedSession.processing_status \in {"Linked", "error"}
          /\ saves[last_step.entry] = 1

\* C18 (as claimed): no failure ends the scan: a raising llm.invoke counts
\* as no resolution of that step, an unreadable Session file only as an
\* error, the scan moves on to the next file, and a finished run has
\* counted every file.
C18_NoFailureEscapesTheLoop ==
    /\ lpc # "crashed"
    /\ (lpc \in {"loop", "done"} /\ last_step.kind # "none") =>
          next_entry = last_step.entry + 1
    /\ (Decided /\ CustomerRaised) => last_step.winner = 0
    /\ (Decided /\ ContactRaised) => last_step.contact_winner = <<>>
    /\ lpc = "done" => counts.processed_files = Len(store)

\* C19: when the roster cannot be loaded no step of the run changes the
\* Session store, saves a Session, counts a file or resolves a name; the
\* only step is the abort.
C19_UnloadableRosterAborts ==
    [][~roster_file.ok =>
          /\ lpc' = "aborted"
          /\ store' = store
          /\ saves' = saves
          /\ counts' = counts
          /\ customer_link_cache' = customer_link_cache
          /\ contact_link_cache' = contact_link_cache
          /\ llm_calls' = llm_calls]_vars

\* an aborted run over a store that holds a Session needing a link
C19_Witness ==
    /\ lpc = "aborted"
    /\ ~roster_file.ok
    /\ \E i \in 1..Len(store) :
          /\ store[i].valid
          /\ store[i].session.processing_status = "Needs Linking"
          /\ store[i].session.source_system = "ScreenConnect"
          /\ store[i].session.customer_name # <<>>
          /\ saves[i] = 0

\* C20 (as claimed): every eligible Session an iteration saved carries
\* the time of that iteration as its last-updated timestamp, whether it was
\* linked, had no guessed customer name, or found no winner.
C20_TimestampRefreshed ==
    (Eligible /\ saves[last_step.entry] >= 1) =>
        ProcessedSession.last_updated_timestamp_utc = clock

\* ------------------------------------------------------------------------
\* Properties of a retry
\* ------------------------------------------------------------------------
\* C21: no step of a second run over the store a finished first run left
\* (same roster) changes a stored Session or saves one.
C21_RetryChangesNothing ==
    [][run = 2 => (store' = store /\ saves' = saves)]_vars

\* a finished retry over a store in which the first run linked one Session
\* and set another to error
C21_Witness ==
    /\ run = 2
    /\ lpc = "done"
    /\ counts.skipped_files = 2
    /\ \E i, j \in 1..Len(store) :
          /\ store[i].valid /\ store[j].valid
          /\ store[i].session.processing_status = "Linked"
          /\ store[i].session.last_updated_timestamp_utc > 0
          /\ store[j].session.processing_status = "error"

\* ------------------------------------------------------------------------
\* Properties of the session builder
\* ------------------------------------------------------------------------
BuiltOk == {b \in 1..Len(built) : built[b].ok}

\* C22: build_session on an empty list raises ValueError and returns no
\* Session; on a non-empty list it returns a Session; every group the
\* clusterer returns is built, one Session per group.
C22_EmptyInputRaises ==
    /\ bpc = "built" =>
          /\ Len(built) = 1
          /\ built[1].ok <=> build_segments # <<>>
          /\ ~built[1].ok => (built[1].error = "ValueError" /\ built[1].session = None)
          /\ built[1].ok => built[1].session.segments = build_segments
    /\ bpc = "clustered_and_built" =>
          /\ \A b \in 1..Len(built) : built[b].ok
          /\ IdsOf(build_segments) =
                UNION {IdsOf(built[b].session.segments) : b \in 1..Len(built)}

\* the empty list was handed to build_session
C22_Witness ==
    /\ bpc = "built"
    /\ build_segments = <<>>
    /\ ~built[1].ok

\* C23: a built Session starts at the least start_time and ends at the
\* greatest end_time of its segments, whatever their order and overlap.
C23_SpanIsMinStartMaxEnd ==
    \A b \in BuiltOk :
        LET segs == built[b].session.segments
            ins == built[b].session.insights
        IN /\ \E i \in 1..Len(segs) : segs[i].start_time_utc = ins.session_start_time_utc
           /\ \A i \in 1..Len(segs) : segs[i].start_time_utc >= ins.session_start_time_utc
           /\ \E i \in 1..Len(segs) : segs[i].end_time_utc = ins.session_end_time_utc
           /\ \A i \in 1..Len(segs) : segs[i].end_time_utc <= ins.session_end_time_utc

\* two overlapping segments arriving latest first, the first one ending last
C23_Witness ==
    /\ bpc = "built"
    /\ built[1].ok
    /\ Len(build_segments) = 2
    /\ build_segments[1].start_time_utc > build_segments[2].start_time_utc
    /\ build_segments[1].end_time_utc > build_segments[2].end_time_utc
    /\ build_segments[2].end_time_utc > build_segments[1].start_time_utc
    /\ built[1].session.insights.session_start_time_utc = build_segments[2].start_time_utc
    /\ built[1].session.insights.session_end_time_utc = build_segments[1].end_time_utc

\* C24: the duration of a built Session is the number of whole minutes
\* between its start and its end, and 0 when the end is not after the start.
C24_DurationWholeMinutes ==
    \A b \in BuiltOk :
        LET ins == built[b].session.insights
            seconds == ins.session_end_time_utc - ins.session_start_time_utc
            d == ins.session_duration_minutes
        IN /\ d >= 0
           /\ seconds <= 0 => d = 0
           /\ seconds > 0 => (60 * d <= seconds /\ seconds < 60 * (d + 1))

\* a Session of 59 seconds lasts 0 minutes
C24_Witness ==
    /\ bpc = "built"
    /\ built[1].ok
    /\ built[1].session.insights.session_end_time_utc
          - built[1].session.insights.session_start_time_utc = 59
    /\ built[1].session.insights.session_duration_minutes = 0

\* a Session whose segments all end before they start lasts 0 minutes
C24_WitnessClamped ==
    /\ bpc = "built"
    /\ built[1].ok
    /\ built[1].session.insights.session_end_time_utc
          < built[1].session.insights.session_start_time_utc
    /\ built[1].session.insights.session_duration_minutes = 0

\* ------------------------------------------------------------------------
\* Further properties of the clusterer and of the cascade
\* ------------------------------------------------------------------------
\* C25 (as claimed): after the call the caller's segment list has the
\* order and the elements it had before the call.
C25_CallerListUntouched ==
    Called => segments = segments_in

\* C26: whatever the accept threshold, every candidate offered to the LLM
\* and every winner of the fuzzy or LLM pass scores at least 60, and when
\* no candidate scores 60 there is no winner and no llm.invoke call.
C26_ViabilityFloor ==
    FuzzyPassRan =>
        LET r == last_step.customer_pass
        IN /\ \A k \in 1..Len(r.candidates) :
                 ScoreNow(RosterNamesNow[r.candidates[k]]) >= 60
           /\ last_step.winner # 0 => ScoreNow(RosterNamesNow[last_step.winner]) >= 60
           /\ (\A n \in ScoredNames : ScoreNow(n) < 60) =>
                 (last_step.winner = 0 /\ ~r.invoked /\ r.candidates = <<>>)

\* an accept threshold of 50 and a best score of 50: no winner, no LLM call
C26_Witness ==
    /\ FuzzyPassRan
    /\ fuzzy_threshold = 50
    /\ llm_config = "google_gemini"
    /\ ScoredNames # {}
    /\ \A n \in ScoredNames : ScoreNow(n) = 50
    /\ last_step.winner = 0
    /\ ~last_step.customer_pass.invoked
    /\ ProcessedSession.processing_status = "error"

\* ------------------------------------------------------------------------
\* Further properties of the linking run
\* ------------------------------------------------------------------------
KeptFields ==
    {"session_id", "source_system", "source_identifiers", "segments",
     "session_start_time_utc", "session_end_time_utc",
     "session_duration_minutes", "source_title"}

\* C27: no step of a run changes the id, source system, source
\* identifiers, segments, start, end, duration or title of a stored
\* Session, rewritten or not.
C27_OnlyIdentityStatusTimestampChange ==
    [][\A i \in 1..Len(store) :
          store[i].valid =>
             /\ store'[i].valid
             /\ \A f \in KeptFields : store'[i].session[f] = store[i].session[f]]_vars

\* a Session rewritten with a customer and a contact, its segments in place
C27_Witness ==
    \E i \in 1..Len(store) :
        /\ saves[i] = 1
        /\ store[i].extra = {}
        /\ store[i].session.processing_status = "Linked"
        /\ store[i].session.customer_id # NoId
        /\ store[i].session.contact_id # NoId
        /\ store[i].session.last_updated_timestamp_utc > 0
        /\ Len(store[i].session.segments) = 1

MethodSum(c) == c.linked_by_exact + c.linked_by_fuzzy + c.linked_by_llm

\* C28 (as claimed): in a run that passed the roster check every scanned
\* file has added one to exactly one of linked, error and skipped, so
\* between iterations and however the run ends processed = linked + error
\* + skipped; a run that logs its summary has scanned every file.
C28_CountConservation ==
    /\ lpc \in {"loop", "done", "crashed"} =>
          counts.processed_files
            = counts.linked_files + counts.error_files + counts.skipped_files
    /\ lpc = "done" => counts.processed_files = Len(store)

\* C29: Exact + Fuzzy + LLM is the number of distinct guessed customer
\* names the run resolved to a winner and never exceeds linked_files; an
\* iteration that links from the customer cache adds one to linked_files
\* and nothing to the method counters.
C29_MethodCountersCountEvaluations ==
    [][/\ MethodSum(counts') =
             Cardinality({g \in DOMAIN customer_link_cache' :
                             customer_link_cache'[g] # 0})
       /\ MethodSum(counts') <= counts'.linked_files
       /\ (lpc = "loop" /\ lpc' = "loop" /\ last_step'.kind = "cached"
              /\ last_step'.winner # 0) =>
             /\ counts'.linked_files = counts.linked_files + 1
             /\ MethodSum(counts') = MethodSum(counts)]_vars

\* two Sessions linked, the second from the cache: one method count
C29_Witness ==
    /\ Decided
    /\ last_step.kind = "cached"
    /\ last_step.winner # 0
    /\ counts.linked_files = 2
    /\ MethodSum(counts) = 1

\* C30: a step that takes a stored Session from Needs Linking to error
\* leaves its customer id and name and its contact id and name as they
\* were and attempts no contact resolution.
C30_ErrorKeepsIdentityFields ==
    [][\A i \in 1..Len(store) :
          (/\ store[i].valid
           /\ store[i].session.processing_status = "Needs Linking"
           /\ store'[i].session.processing_status = "error") =>
             /\ \A f \in {"customer_id", "customer_name", "contact_id", "contact_name"} :
                   store'[i].session[f] = store[i].session[f]
             /\ last_step'.entry = i
             /\ last_step'.contact = "none"]_vars

\* a Session with a guessed customer and contact that found no winner
C30_Witness ==
    /\ Decided
    /\ last_step.winner = 0
    /\ ProcessedSession.processing_status = "error"
    /\ ProcessedSession.customer_name = Abx
    /\ ProcessedSession.contact_name = Xy
    /\ ProcessedSession.customer_id = NoId
    /\ ProcessedSession.contact_id = NoId
    /\ saves[last_step.entry] = 1

====
